---- MODULE Spec2Model ----
(***************************************************************************)
(* Verification model of the Smart-Pager scheduling core:                  *)
(*   server/modules/scheduler.py        conflict detection, merge, solver  *)
(*   server/modules/schedule_manager.py the per-weekday store              *)
(*   server/modules/audio_pipeline.py   handle_modify_schedule, the turns  *)
(*   server/modules/context_manager.py  the dialogue context               *)
(*   server/audioCapture_server.py      the direct add-event operation     *)
(*   server/modules/background_sync.py  merge_external_events              *)
(*   server/modules/intent_router.py    validate_operations                *)
(*                                                                         *)
(* Time.  Every timestamp the repository builds itself comes from          *)
(* parse_time_to_datetime(...).isoformat(): naive, on the day's date, with *)
(* zero seconds.  A timestamp is modelled as the number of time slots      *)
(* since midnight of the day; the solver works in slots since dayStart     *)
(* (minutes_since_day_start / add_minutes_to_day_start).                   *)
(*                                                                         *)
(* Events.  A python event dict is a record with the keys the code reads:  *)
(*   name  sequence of characters      type  "fixed" | "flexible"          *)
(*   start, end       slots, NoneT when the key holds None / is absent     *)
(*   dur              durationMinutes, NoneT for None                      *)
(*   es, le           earliestStart / latestEnd, NoneT for None            *)
(*   cid              _calendar_id: NoKey (key absent), 0 (None), or an id *)
(***************************************************************************)
EXTENDS Integers, Sequences, FiniteSets, TLC

\* ------------------------------------------------------------------ bounds
\* length of the day window in slots (dayEnd - dayStart; 780 minutes in the code)
DayLen == 3
\* most events (stored plus added) of a call with names and types combined freely
MaxEvents == 2
\* most events (stored plus added) of a call of Fixed events of one name
MaxFixed == 3
\* most events (stored plus added) of a call of one-slot events whose names
\* follow the types
MaxBatch == 4
\* most events (stored plus added) of a call whose Flexible events carry a
\* window of their own
MaxWindow == 2
\* most stored events of a call that carries an edit
MaxEdited == 2
\* most operations of a batch handed to validate_operations
MaxOps == 2
\* most stored events of a call that carries deletes, and most deletes
MaxDeleted == 3
MaxDeletes == 2
\* last day of the clock of the week rollover
MaxDay == 4
\* most utterances a stored transcript is merged from
MaxTail == 2
\* last tick of the clock the dialogue context reads
MaxClock == 4
\* most events of a day schedule handed to save_day_schedule
MaxSaved == 2
\* most events the week holds in the store machine
MaxStored == 3
\* most adds of one voice request
MaxReq == 2

\* first slot of the day window ("08:00" counted in slots since midnight)
DayStart == 1
DayEnd == DayStart + DayLen
\* the slots an event of the day can start or end at
Times == DayStart..DayEnd

NoneT == -1
NoKey == -1

\* ------------------------------------------------------------------ names
LowerCh(c) == IF c = "A" THEN "a" ELSE IF c = "B" THEN "b" ELSE IF c = "Y" THEN "y" ELSE c

\* str.lower()
Lower(n) == [i \in DOMAIN n |-> LowerCh(n[i])]

\* python's `sub in s` on strings
Contains(sub, s) ==
    \E i \in 0..(Len(s) - Len(sub)) : SubSeq(s, i + 1, i + Len(sub)) = sub

\* the test of the delete and edit steps: spec.lower() in name.lower()
NameMatches(spec, name) == Contains(Lower(spec), Lower(name))

\* ------------------------------------------------------------------ events
Ev(n, t, s, e, d, es, le, c) ==
    [name |-> n, type |-> t, start |-> s, end |-> e, dur |-> d,
     es |-> es, le |-> le, cid |-> c]

\* operation_to_scheduler_event, the general branch with type "fixed"
FixedAdd(n, s, e) == Ev(n, "fixed", s, e, NoneT, NoneT, NoneT, 0)

\* operation_to_scheduler_event, flexible with a duration and no explicit times
FlexAdd(n, d) == Ev(n, "flexible", DayStart, DayEnd, d, DayStart, DayEnd, NoKey)

\* operation_to_scheduler_event, flexible with explicit start and end:
\* the times become the window
FlexWindowAdd(n, s, e) == Ev(n, "flexible", s, e, NoneT, s, e, 0)

\* the same with a durationMinutes
FlexWindowDurAdd(n, s, e, d) == Ev(n, "flexible", s, e, d, s, e, 0)

\* ------------------------------------------------------------ list helpers
RECURSIVE RemoveFirst(_, _)
\* list.remove(x): drops the first element equal to x (ValueError is passed)
RemoveFirst(seq, x) ==
    IF seq = <<>> THEN <<>>
    ELSE IF Head(seq) = x THEN Tail(seq)
    ELSE <<Head(seq)>> \o RemoveFirst(Tail(seq), x)

RECURSIVE InsertByStart(_, _)
\* x goes behind every element whose start is <= x.start (stable)
InsertByStart(sorted, x) ==
    IF sorted = <<>> THEN <<x>>
    ELSE IF Head(sorted).start <= x.start
         THEN <<Head(sorted)>> \o InsertByStart(Tail(sorted), x)
         ELSE <<x>> \o sorted

RECURSIVE SortByStart(_)
\* sorted(events, key=lambda e: e["start"]), python's sort is stable
SortByStart(seq) ==
    IF seq = <<>> THEN <<>>
    ELSE InsertByStart(SortByStart(SubSeq(seq, 1, Len(seq) - 1)), seq[Len(seq)])

Range(seq) == {seq[i] : i \in DOMAIN seq}

\* ------------------------------------------------------- conflict detection
\* the overlap test with intervals closed at both ends
check_time_overlap_closed(e1, e2) ==
    ~(e1.end < e2.start \/ e2.end < e1.start)

check_time_overlap(e1, e2) ==
    ~(e1.end <= e2.start \/ e2.end <= e1.start)

find_conflicts(new_event, existing_events) ==
    SelectSeq(existing_events, LAMBDA x : check_time_overlap(new_event, x))

\* the record whose recommendation lasts as long as the existing event
ConflictRecordExistingLength(new_event, conflict_event) ==
    [new_event |-> new_event,
     existing_event |-> conflict_event,
     existing_type |-> conflict_event.type,
     recommendation |->
        [start |-> conflict_event.end,
         end |-> conflict_event.end + (conflict_event.end - conflict_event.start)]]

ConflictRecord(new_event, conflict_event) ==
    [new_event |-> new_event,
     existing_event |-> conflict_event,
     existing_type |-> conflict_event.type,
     recommendation |->
        [start |-> conflict_event.end,
         end |-> conflict_event.end + (new_event.end - new_event.start)]]

RECURSIVE ResolveConflicts(_, _, _, _)
\* the loop `for conflict_event in current_conflicts` over cc[i..];
\* st = [add, conflicts, tentative] are events_to_add, conflicts and
\* tentative_schedule
ResolveConflicts(new_event, cc, i, st) ==
    IF i > Len(cc) THEN st
    ELSE LET c == cc[i] IN
         IF new_event.type = "fixed" /\ c.type = "flexible"
         THEN ResolveConflicts(new_event, cc, i + 1,
                [add |-> Append(st.add, c),
                 conflicts |-> st.conflicts,
                 tentative |-> RemoveFirst(st.tentative, c)])
         ELSE ResolveConflicts(new_event, cc, i + 1,
                [add |-> st.add,
                 conflicts |-> Append(st.conflicts, ConflictRecord(new_event, c)),
                 tentative |-> st.tentative])

\* DetectStep without `tentative_schedule.append(new_event)` for an add that
\* conflicts with nothing
DetectStepNoAppend(new_event, st) ==
    IF new_event.type = "flexible"
    THEN [add |-> Append(st.add, new_event),
          conflicts |-> st.conflicts,
          tentative |-> Append(st.tentative, new_event)]
    ELSE LET cc == find_conflicts(new_event, st.tentative) IN
         IF cc # <<>>
         THEN LET r == ResolveConflicts(new_event, cc, 1, st) IN
              IF r.conflicts = <<>>
              THEN [add |-> Append(r.add, new_event),
                    conflicts |-> r.conflicts,
                    tentative |-> Append(r.tentative, new_event)]
              ELSE r
         ELSE [add |-> Append(st.add, new_event),
               conflicts |-> st.conflicts,
               tentative |-> st.tentative]

\* DetectStep without the branch that queues a flexible add untested
DetectStepFlexibleTested(new_event, st) ==
    LET cc == find_conflicts(new_event, st.tentative) IN
    IF cc # <<>>
    THEN LET r == ResolveConflicts(new_event, cc, 1, st) IN
         IF r.conflicts = <<>>
         THEN [add |-> Append(r.add, new_event),
               conflicts |-> r.conflicts,
               tentative |-> Append(r.tentative, new_event)]
         ELSE r
    ELSE [add |-> Append(st.add, new_event),
          conflicts |-> st.conflicts,
          tentative |-> Append(st.tentative, new_event)]

\* one iteration of `for new_event in new_events`
DetectStep(new_event, st) ==
    IF new_event.type = "flexible"
    THEN [add |-> Append(st.add, new_event),
          conflicts |-> st.conflicts,
          tentative |-> Append(st.tentative, new_event)]
    ELSE LET cc == find_conflicts(new_event, st.tentative) IN
         IF cc # <<>>
         THEN LET r == ResolveConflicts(new_event, cc, 1, st) IN
              \* `if not conflicts`: the list of the whole batch
              IF r.conflicts = <<>>
              THEN [add |-> Append(r.add, new_event),
                    conflicts |-> r.conflicts,
                    tentative |-> Append(r.tentative, new_event)]
              ELSE r
         ELSE [add |-> Append(st.add, new_event),
               conflicts |-> st.conflicts,
               tentative |-> Append(st.tentative, new_event)]

RECURSIVE DetectLoop(_, _, _)
DetectLoop(new_events, i, st) ==
    IF i > Len(new_events) THEN st
    ELSE DetectLoop(new_events, i + 1, DetectStep(new_events[i], st))

\* returns [add |-> events_to_add, conflicts |-> conflicts, tentative |-> ...]
detect_and_resolve_conflicts(existing_events, new_events) ==
    DetectLoop(new_events, 1,
               [add |-> <<>>, conflicts |-> <<>>, tentative |-> existing_events])

\* ---------------------------------------------------------------- optimizer
\* scheduler.py works in minutes since the start of the scheduling day
minutes_since_day_start(t) == t - DayStart

add_minutes_to_day_start(m) == DayStart + m

\* result dictionaries: error.kind is "none" when the key 'error' is absent
NoError == [kind |-> "none", task |-> <<>>]
WindowError(n) == [kind |-> "window", task |-> n]
InfeasibleError == [kind |-> "infeasible", task |-> <<>>]

Result(evs, cf, err) == [events |-> evs, conflicts |-> cf, error |-> err]

MapSeq(seq, F(_)) == [i \in DOMAIN seq |-> F(seq[i])]

\* the flexible branch of the split loop of optimize_day_events
TaskOf(event) ==
    [event EXCEPT !.type = "flexible",
                  !.dur = IF event.dur = NoneT \/ event.dur = 0
                          THEN event.end - event.start ELSE event.dur]

\* the fixed branch of the split loop
FixedOf(event) == [event EXCEPT !.type = "fixed"]

\* a fixed event that overlaps a kept one becomes a task of name and duration
Demote(event) ==
    Ev(event.name, "flexible", NoneT, NoneT, event.end - event.start,
       NoneT, NoneT, NoKey)

RECURSIVE ResolveFixed(_, _, _)
\* the scan over the fixed events sorted by start; st = [kept, demoted]
ResolveFixed(sorted, i, st) ==
    IF i > Len(sorted) THEN st
    ELSE IF find_conflicts(sorted[i], st.kept) # <<>>
         THEN ResolveFixed(sorted, i + 1,
                [kept |-> st.kept, demoted |-> Append(st.demoted, Demote(sorted[i]))])
         ELSE ResolveFixed(sorted, i + 1,
                [kept |-> Append(st.kept, sorted[i]), demoted |-> st.demoted])

\* fixed_events and flexible_tasks as handed to schedule_day
SplitEvents(events) ==
    LET fx == MapSeq(SelectSeq(events, LAMBDA e : e.type # "flexible"), FixedOf)
        fl == MapSeq(SelectSeq(events, LAMBDA e : e.type = "flexible"), TaskOf)
        r  == ResolveFixed(SortByStart(fx), 1, [kept |-> <<>>, demoted |-> <<>>])
    IN  IF Len(fx) > 1
        THEN [fixed |-> r.kept, tasks |-> fl \o r.demoted]
        ELSE [fixed |-> fx, tasks |-> fl]

\* build_schedule_model: domain of a task's start variable
StartLb(task) ==
    minutes_since_day_start(IF task.es = NoneT THEN DayStart ELSE task.es)

StartUb(task) ==
    minutes_since_day_start(IF task.le = NoneT THEN DayEnd ELSE task.le) - task.dur

\* build_schedule_model without the test `if start_ub < start_lb`
BadWindowUntested(tasks) == {}

\* the tasks for which build_schedule_model raises RuntimeError
BadWindow(tasks) == {j \in DOMAIN tasks : StartUb(tasks[j]) < StartLb(tasks[j])}

Min(S) == CHOOSE x \in S : \A y \in S : x <= y
Max(S) == CHOOSE x \in S : \A y \in S : y <= x

\* AddNoOverlap over the task intervals alone
NoOverlapTasksOnly(fixed, tasks, f) ==
    LET nf == Len(fixed)
        n  == nf + Len(f)
        S(k) == IF k <= nf THEN minutes_since_day_start(fixed[k].start)
                ELSE f[k - nf]
        D(k) == IF k <= nf THEN fixed[k].end - fixed[k].start
                ELSE tasks[k - nf].dur
    IN  \A a, b \in (nf + 1)..n :
            a < b => (S(a) + D(a) <= S(b) \/ S(b) + D(b) <= S(a))

\* AddNoOverlap over the fixed intervals and the first Len(f) task intervals,
\* the tasks starting at f
NoOverlap(fixed, tasks, f) ==
    LET nf == Len(fixed)
        n  == nf + Len(f)
        S(k) == IF k <= nf THEN minutes_since_day_start(fixed[k].start)
                ELSE f[k - nf]
        D(k) == IF k <= nf THEN fixed[k].end - fixed[k].start
                ELSE tasks[k - nf].dur
    IN  \A a, b \in 1..n :
            a < b => (S(a) + D(a) <= S(b) \/ S(b) + D(b) <= S(a))

RECURSIVE Extend(_, _, _)
\* the feasible assignments that extend the starts f of the first tasks
Extend(fixed, tasks, f) ==
    IF Len(f) = Len(tasks) THEN {f}
    ELSE LET t == tasks[Len(f) + 1] IN
         UNION {Extend(fixed, tasks, Append(f, s)) :
                  s \in {x \in StartLb(t)..StartUb(t) : NoOverlap(fixed, tasks, Append(f, x))}}

\* every assignment the solver may return
Solutions(fixed, tasks) ==
    IF NoOverlap(fixed, tasks, <<>>) THEN Extend(fixed, tasks, <<>>) ELSE {}

\* dictionaries keyed by name keep the last entry written under a name
LastWithName(seq, n) == Max({k \in DOMAIN seq : seq[k].name = n})

\* solve_schedule, the loop over `intervals`: one output per fixed interval
\* whose name is not a key of start_vars, built from fixed_starts[name],
\* duration_map[name] and event_map[name]
FixedOut(fixed, tasks) ==
    LET keep == SelectSeq(fixed, LAMBDA e : \A j \in DOMAIN tasks : tasks[j].name # e.name)
        Out(e) == LET o == fixed[LastWithName(fixed, e.name)]
                      start_min == minutes_since_day_start(o.start)
                      duration == o.end - o.start
                  IN  [o EXCEPT !.type = "fixed",
                                !.start = add_minutes_to_day_start(start_min),
                                !.end = add_minutes_to_day_start(start_min + duration)]
    IN  MapSeq(keep, Out)

\* solve_schedule, the loop over start_vars.items(): one output per task name,
\* in the order the names were first inserted
FlexOut(tasks, f) ==
    LET first == SelectSeq([j \in DOMAIN tasks |-> j],
                     LAMBDA j : \A k \in 1..(j - 1) : tasks[k].name # tasks[j].name)
        Out(j) == LET k == LastWithName(tasks, tasks[j].name)
                      o == tasks[k]
                  IN  [o EXCEPT !.type = "flexible",
                                !.start = add_minutes_to_day_start(f[k]),
                                !.end = add_minutes_to_day_start(f[k] + o.dur)]
    IN  MapSeq(first, Out)

\* schedule_day returning the Fixed events alone when the solver finds nothing
schedule_day_unchecked(events, fixed, tasks) ==
    IF BadWindow(tasks) # {}
    THEN {Result(events, <<>>, WindowError(tasks[Min(BadWindow(tasks))].name))}
    ELSE IF Solutions(fixed, tasks) = {}
    THEN {Result(SortByStart(FixedOut(fixed, tasks)), <<>>, NoError)}
    ELSE {Result(SortByStart(FixedOut(fixed, tasks) \o FlexOut(tasks, f)), <<>>, NoError)
            : f \in Solutions(fixed, tasks)}

\* schedule_day under the try of optimize_day_events: the set of results
\* the call can return
schedule_day(events, fixed, tasks) ==
    IF BadWindow(tasks) # {}
    THEN {Result(events, <<>>, WindowError(tasks[Min(BadWindow(tasks))].name))}
    ELSE IF Solutions(fixed, tasks) = {}
    THEN {Result(events, <<>>, InfeasibleError)}
    ELSE {Result(SortByStart(FixedOut(fixed, tasks) \o FlexOut(tasks, f)), <<>>, NoError)
            : f \in Solutions(fixed, tasks)}

optimize_day_events(events) ==
    IF events = <<>> THEN {Result(<<>>, <<>>, NoError)}
    ELSE LET sp == SplitEvents(events) IN
         IF sp.tasks = <<>>
         THEN {Result(SortByStart(sp.fixed), <<>>, NoError)}
         ELSE schedule_day(events, sp.fixed, sp.tasks)

\* -------------------------------------------------------------------- merge
\* the delete of one name that drops the first matching event only
DeleteFirst(result_events, delete_name) ==
    LET hits == {k \in DOMAIN result_events : NameMatches(delete_name, result_events[k].name)}
    IN  IF hits = {} THEN result_events
        ELSE SubSeq(result_events, 1, Min(hits) - 1)
             \o SubSeq(result_events, Min(hits) + 1, Len(result_events))

\* one turn of the loop `for delete_item in delete_names`
DeleteMatching(result_events, delete_name) ==
    SelectSeq(result_events, LAMBDA e : ~NameMatches(delete_name, e.name))

RECURSIVE ApplyDeletes(_, _)
ApplyDeletes(result_events, delete_names) ==
    IF delete_names = <<>> THEN result_events
    ELSE ApplyDeletes(DeleteMatching(result_events, Head(delete_names)),
                      Tail(delete_names))

\* {**existing, **edit_event}: every key of the edit replaces the stored one
Overlay(existing, edit_event) ==
    [edit_event EXCEPT !.cid = IF edit_event.cid = NoKey THEN existing.cid
                                ELSE edit_event.cid]

\* the edit that lands on the last matching event
EditTargetLast(edit_name, result_events) ==
    LET hits == {k \in DOMAIN result_events : NameMatches(edit_name, result_events[k].name)}
    IN  IF hits = {} THEN 0 ELSE Max(hits)

\* the index at which the loop `for i, existing in enumerate(result_events)`
\* breaks, 0 when it runs to the end
EditTarget(edit_name, result_events) ==
    LET hits == {k \in DOMAIN result_events : NameMatches(edit_name, result_events[k].name)}
    IN  IF hits = {} THEN 0 ELSE Min(hits)

RECURSIVE ApplyEdits(_, _, _)
\* st = [events, new]: result_events and new_events (an edit without a
\* target is appended to new_events)
ApplyEdits(edit_events, i, st) ==
    IF i > Len(edit_events) THEN st
    ELSE LET ed == edit_events[i]
             k == EditTarget(ed.name, st.events)
         IN  IF k # 0
             THEN ApplyEdits(edit_events, i + 1,
                    [events |-> [st.events EXCEPT ![k] = Overlay(st.events[k], ed)],
                     new |-> st.new])
             ELSE ApplyEdits(edit_events, i + 1,
                    [events |-> st.events, new |-> Append(st.new, ed)])

\* the events and adds after the delete and edit steps
MergeInputs(existing_events, new_events, delete_names, edit_events) ==
    ApplyEdits(edit_events, 1,
               [events |-> ApplyDeletes(existing_events, delete_names),
                new |-> new_events])

\* the set of results merge_and_optimize_events can return
merge_and_optimize_events(existing_events, new_events, delete_names, edit_events) ==
    LET m   == MergeInputs(existing_events, new_events, delete_names, edit_events)
        det == detect_and_resolve_conflicts(m.events, m.new)
    IN  IF m.new = <<>>
        THEN optimize_day_events(m.events)
        ELSE {[r EXCEPT !.conflicts = det.conflicts]
                : r \in optimize_day_events(m.events \o det.add)}

\* ------------------------------------------------------------ input domains
Names == {<<"a">>, <<"A", "b">>}
OneName == {<<"a">>}
Durations == 1..2

\* the events operation_to_scheduler_event builds for an add
Intervals == {iv \in Times \X Times : iv[2] - iv[1] \in Durations}

FixedAdds(NS) == {FixedAdd(n, iv[1], iv[2]) : n \in NS, iv \in Intervals}

FlexAdds(NS) == {FlexAdd(n, d) : n \in NS, d \in Durations}

AddEvents(NS) == FixedAdds(NS) \cup FlexAdds(NS)

\* adds of one slot whose name tells the type: the Fixed ones share one name,
\* the Flexible ones another
UnitAdds ==
    {e \in FixedAdds(OneName) : e.end - e.start = 1} \cup
    {e \in FlexAdds(Names \ OneName) : e.dur = 1}

\* adds with a window of their own, for one Flexible name, and the Fixed adds
\* of another
WindowAdds ==
    FixedAdds(OneName) \cup
    {FlexWindowAdd(n, iv[1], iv[2]) : n \in Names \ OneName, iv \in Intervals} \cup
    {FlexWindowDurAdd(n, iv[1], iv[2], d) : n \in Names \ OneName, iv \in Intervals, d \in Durations}

\* an added event as solve_schedule returns it and the store keeps it
Placed(task, s) == [task EXCEPT !.start = s, !.end = s + task.dur]

\* the stored forms of the adds U: a Fixed add as it is, a Flexible one as the
\* task the optimizer makes of it, at each start its window admits
StoredEvents(U) ==
    {e \in U : e.type = "fixed"} \cup
    UNION {{Placed(TaskOf(t), add_minutes_to_day_start(m)) : m \in StartLb(TaskOf(t))..StartUb(TaskOf(t))}
             : t \in {x \in U : x.type = "flexible"}}

RECURSIVE AddSeqs(_, _)
\* the add batches of at most k operations drawn from U
AddSeqs(U, k) ==
    IF k <= 0 THEN {<<>>}
    ELSE LET shorter == AddSeqs(U, k - 1) IN
         shorter \cup {Append(b, e) : b \in shorter, e \in U}

RECURSIVE StoredDays(_, _)
\* the days of at most k events a successful save leaves behind: sorted by
\* start, no two events overlapping
StoredDays(U, k) ==
    IF k <= 0 THEN {<<>>}
    ELSE LET shorter == StoredDays(U, k - 1)
             Fits(c) == {x \in StoredEvents(U) : c = <<>> \/ c[Len(c)].end <= x.start}
         IN  shorter \cup UNION {{Append(c, e) : e \in Fits(c)} : c \in shorter}

\* a stored event after the calendar sync of handle_modify_schedule gave it an id
Synced(e) == [e EXCEPT !.cid = 1]


\* -------------------------------------------------------------------- state
VARIABLES
    store,   \* store[day]: the DaySchedule of <day>/schedule.json
    meta,    \* week_meta.json
    now,     \* the clock, counted in days
    fstat,   \* fstat[day]: "ok", or "missing" / "trunc" / "corrupt" when schedule.json
             \* is not there or does not parse
    thr,     \* the requests being handled concurrently
    last,    \* what the last completed operation reported
    call,    \* one call of merge_and_optimize_events: arguments and result
    ctx,     \* the ContextManager singleton: the dialogue state and its payload
    clock,   \* the clock the dialogue context reads, in ticks
    turn     \* turn[t]: the voice request thread t handles, and what it did

vars == <<store, meta, now, fstat, thr, last, call, ctx, clock, turn>>

\* DAYS_OF_WEEK, cut to the days the model uses; a day is its index
DaysSeq == <<"monday", "tuesday">>
Days == DOMAIN DaysSeq
NoDay == 0
Threads == {1, 2}

\* DaySchedule.empty(day)
EmptyDay == [events |-> <<>>, last_updated |-> NoneT]

\* save_day_schedule that writes the events in the order of their start
SavedDaySorted(events) == [events |-> SortByStart(events), last_updated |-> now]

\* what save_day_schedule writes: the events, stamped
SavedDay(events) == [events |-> events, last_updated |-> now]

\* _get_current_week_start: the Monday of today's week (a week of the model
\* has the days of DaysSeq)
get_current_week_start == now - (now % Len(DaysSeq))

\* _reset_week_metadata
ResetMeta == [week_start_date |-> get_current_week_start, last_reset |-> now, last_modified |-> now]

\* get_week_metadata: week_meta.json as read; a file that is missing or does
\* not parse (week_start_date = NoneT here) is first rewritten by
\* _reset_week_metadata
get_week_metadata == IF meta.week_start_date = NoneT THEN ResetMeta ELSE meta

\* _update_week_metadata
TouchMeta(m) == [(IF m.week_start_date = NoneT THEN ResetMeta ELSE m) EXCEPT !.last_modified = now]

\* ---------------------------------------------------------- ContextManager
\* is_expired's timeout_seconds=300, in ticks of the clock
timeout_seconds == 2

\* a transcript: the command words the pipeline puts in front ("Add <name> on
\* <day> at <time>": head.at and head.until are the start and the end time
\* the words carry, NoneT for none) and the utterances that follow, joined by
\* spaces
NoHead == [name |-> <<>>, day |-> NoDay, at |-> NoneT, until |-> NoneT]

Transcript(head, tail) == [head |-> head, tail |-> tail]

\* None, for each field of the context
NoTranscript == Transcript(NoHead, <<>>)
NoEvent == Ev(<<>>, "none", NoneT, NoneT, NoneT, NoneT, NoneT, NoKey)
NoRec == [start |-> NoneT, end |-> NoneT]

\* ContextManager.reset: the fields it leaves
reset ==
    [state |-> "idle", last_transcript |-> NoTranscript, pending_event |-> NoEvent,
     recommendation |-> NoRec, last_interaction_time |-> NoneT]

\* is_expired with `>=` for `>`
is_expired_at_timeout(c) ==
    IF c.last_interaction_time = NoneT THEN TRUE
    ELSE clock - c.last_interaction_time >= timeout_seconds

\* ContextManager.is_expired
is_expired(c) ==
    IF c.last_interaction_time = NoneT THEN TRUE
    ELSE clock - c.last_interaction_time > timeout_seconds

\* ContextManager.set_clarification_state
set_clarification_state(c, original_transcript) ==
    [c EXCEPT !.state = "awaiting_clarification",
              !.last_transcript = original_transcript,
              !.last_interaction_time = clock]

\* ContextManager.set_conflict_state
set_conflict_state(c, pending_event, recommendation) ==
    [c EXCEPT !.state = "awaiting_conflict_resolution",
              !.pending_event = pending_event,
              !.recommendation = recommendation,
              !.last_interaction_time = clock]

\* the dict get_context returns; a key that is absent reads as None
Context(state, last_transcript, pending_event, recommendation) ==
    [state |-> state, last_transcript |-> last_transcript,
     pending_event |-> pending_event, recommendation |-> recommendation]

\* get_context that counts a read as an interaction
get_context_refreshing(c) ==
    IF is_expired(c)
    THEN [ctx |-> IF c.state # "idle" THEN reset ELSE c,
          context |-> Context("idle", NoTranscript, NoEvent, NoRec)]
    ELSE [ctx |-> [c EXCEPT !.last_interaction_time = clock],
          context |-> Context(c.state, c.last_transcript, c.pending_event, c.recommendation)]

\* ContextManager.get_context: the context it leaves and the dict it returns
get_context(c) ==
    IF is_expired(c)
    THEN [ctx |-> IF c.state # "idle" THEN reset ELSE c,
          context |-> Context("idle", NoTranscript, NoEvent, NoRec)]
    ELSE [ctx |-> c,
          context |-> Context(c.state, c.last_transcript, c.pending_event, c.recommendation)]

\* a request not started
NoTurn == [pc |-> "idle", entry |-> "none", said |-> <<>>,
           context |-> Context("idle", NoTranscript, NoEvent, NoRec),
           transcript |-> NoTranscript, classified_in |-> "none",
           outcome |-> "none", conflicts |-> <<>>]

NoDetect == [add |-> <<>>, conflicts |-> <<>>, tentative |-> <<>>]

NoCall == [pc |-> "none", existing |-> <<>>, adds |-> <<>>, dels |-> <<>>,
           edits |-> <<>>, det |-> NoDetect, res |-> Result(<<>>, <<>>, NoError)]

NoLast == [op |-> "none", day |-> NoDay, kind |-> "ok", rollover |-> FALSE,
           free |-> <<>>, returned |-> <<>>, conflicts |-> <<>>,
           had |-> FALSE, got |-> EmptyDay]

IdleThread == [pc |-> "idle", day |-> NoDay, adds |-> <<>>, read |-> <<>>,
               out |-> <<>>, kind |-> "ok"]

InitStore ==
    /\ store = [d \in Days |-> EmptyDay]
    /\ meta = [week_start_date |-> 0, last_reset |-> 0, last_modified |-> 0]
    /\ now = 0
    /\ fstat = [d \in Days |-> "ok"]
    /\ thr = [t \in Threads |-> IdleThread]
    /\ last = NoLast
    /\ ctx = reset
    /\ clock = 0
    /\ turn = [t \in Threads |-> NoTurn]

\* ------------------------------------------- merge_and_optimize_events calls
\* a call with the stored day x, the add batch a and the edits ed
CallOf(x, a, ed) ==
    call = [NoCall EXCEPT !.pc = "input", !.existing = x, !.adds = a, !.edits = ed]

\* the names a delete operation carries: one in two stored names, one in one, one in none
DeleteNames == {<<"a">>, <<"B">>, <<"b", "a">>}

\* a stored day of at most k events and at least one and at most n deletes
DeleteCall(U, k, n) ==
    LET days == StoredDays(U, k)
        names == AddSeqs(DeleteNames, n) \ {<<>>}
    IN  \E x \in days : \E dn \in names :
           call = [NoCall EXCEPT !.pc = "input", !.existing = x, !.dels = dn]

\* a stored day and an add batch of at most `total` events together
MergeCall(U, total) ==
    LET days == StoredDays(U, total) IN
    \E n \in 0..total :
        LET batches == AddSeqs(U, total - n) IN
        \E x \in {y \in days : Len(y) = n} :
            \E a \in batches : CallOf(x, a, <<>>)

\* a stored day of at least one and at most k synced events, and one edit
EditCall(U, k) ==
    \E x \in StoredDays(U, k) \ {<<>>} :
        \E ed \in U : CallOf(MapSeq(x, Synced), <<>>, <<ed>>)

\* the calls tried: the families of stored day, add batch and edits, one per bound
InitMerge ==
    /\ InitStore
    /\ \/ MergeCall(AddEvents(Names), MaxEvents)
       \/ MergeCall(FixedAdds(OneName), MaxFixed)
       \/ MergeCall(UnitAdds, MaxBatch)
       \/ MergeCall(WindowAdds, MaxWindow)
       \/ EditCall(AddEvents(Names), MaxEdited)
       \/ DeleteCall(UnitAdds, MaxDeleted, MaxDeletes)

CallMerge ==
    /\ call.pc = "input"
    /\ \E r \in merge_and_optimize_events(call.existing, call.adds, call.dels, call.edits) :
         LET m == MergeInputs(call.existing, call.adds, call.dels, call.edits) IN
         call' = [call EXCEPT !.pc = "done",
                              !.det = detect_and_resolve_conflicts(m.events, m.new),
                              !.res = r]
    /\ UNCHANGED <<store, meta, now, fstat, thr, last, ctx, clock, turn>>

NextMerge == CallMerge

SpecMerge == InitMerge /\ [][NextMerge]_vars

\* ------------------------------------------------------ the store, serially
StoredCount(st) ==
    LET RECURSIVE Sum(_)
        Sum(i) == IF i > Len(DaysSeq) THEN 0
                  ELSE Len(st[i].events) + Sum(i + 1)
    IN  Sum(1)

\* get_day_schedule that hands back whatever it can make of the file
get_day_schedule_unchecked(d) == store[d]

\* get_day_schedule: a file that does not parse reads as an empty day
get_day_schedule(d) == IF fstat[d] = "ok" THEN store[d] ELSE EmptyDay

\* the operations of one day as operations_to_scheduler_format groups them
Ops(a) == [add |-> a, del |-> <<>>, edit |-> <<>>]

NoOps(ops) == ops.add = <<>> /\ ops.del = <<>> /\ ops.edit = <<>>

RECURSIVE RequestsFrom(_, _)
\* the operations of the days from the i-th on, at most k adds in all
RequestsFrom(i, k) ==
    IF i > Len(DaysSeq) THEN {<<>>}
    ELSE UNION {{<<Ops(a)>> \o rest : rest \in RequestsFrom(i + 1, k - Len(a))}
                  : a \in AddSeqs(AddEvents(OneName), k)}

\* the voice requests of at least one and at most k adds, spread over the days
Requests(k) == {req \in RequestsFrom(1, k) : \E d \in Days : ~NoOps(req[d])}

\* the adds of a batch that no ConflictRecord names
FreeAdds(adds, conflicts) ==
    SelectSeq(adds, LAMBDA e : \A c \in Range(conflicts) : c.new_event # e)

RECURSIVE ModifyFrom(_, _, _)
\* handle_modify_schedule, the loop `for day_name in DAYS_OF_WEEK` from the
\* i-th day on, with the store st: the set of [store, last] it can end in
\* (the calendar sync between merge and save is taken with the calendar
\* unreachable: create_event reports an error, the events stay as they are)
ModifyFrom(i, st, req) ==
    IF i > Len(DaysSeq)
    THEN {[store |-> st, last |-> [NoLast EXCEPT !.op = "modify"]]}
    ELSE LET d == i
             ops == req[d]
             Outcome(r) ==
                IF r.error.kind # "none"
                THEN {[store |-> st,
                       last |-> [NoLast EXCEPT !.op = "modify", !.day = d,
                                               !.kind = "infeasible"]]}
                ELSE IF r.conflicts # <<>>
                THEN {[store |-> st,
                       last |-> [NoLast EXCEPT !.op = "modify", !.day = d,
                                               !.kind = "conflict",
                                               !.free = FreeAdds(ops.add, r.conflicts),
                                               !.returned = r.events,
                                               !.conflicts = r.conflicts]]}
                ELSE ModifyFrom(i + 1, [x \in Days |-> IF x = d THEN SavedDay(r.events) ELSE st[x]], req)
         IN  IF NoOps(ops) THEN ModifyFrom(i + 1, st, req)
             ELSE UNION {Outcome(r) :
                    r \in merge_and_optimize_events(st[d].events, ops.add, ops.del, ops.edit)}

\* check_and_reset_if_new_week -> clear_week
NewWeek == get_week_metadata.week_start_date # get_current_week_start

AfterRollover == IF NewWeek THEN [d \in Days |-> EmptyDay] ELSE store

\* handle_modify_schedule
HandleModifySchedule ==
    \E req \in Requests(Min({MaxReq, MaxStored - StoredCount(AfterRollover)})) :
        /\ \E o \in ModifyFrom(1, AfterRollover, req) :
              /\ store' = o.store
              /\ last' = [o.last EXCEPT !.rollover = NewWeek]
              /\ meta' = IF o.store # AfterRollover THEN TouchMeta(IF NewWeek THEN ResetMeta ELSE meta)
                         ELSE IF NewWeek THEN ResetMeta ELSE get_week_metadata
        /\ UNCHANGED <<now, fstat, thr, call, ctx, clock, turn>>

\* the event the HTTP add-event operation builds from the request body
HttpEvent(n, t, s, e) == Ev(n, t, s, e, NoneT, NoneT, NoneT, NoKey)

\* the bodies tried: events that start with the day window
HttpEvents == {HttpEvent(n, t, iv[1], iv[2]) :
                 n \in OneName, t \in {"fixed", "flexible"},
                 iv \in {x \in Intervals : x[1] = DayStart}}

\* audioCapture_server.add_event_to_day: append, optimize, save
HttpAddEvent ==
    \E d \in Days, event \in HttpEvents :
        /\ StoredCount(store) < MaxStored
        /\ \E r \in optimize_day_events(Append(get_day_schedule(d).events, event)) :
              /\ store' = [store EXCEPT ![d] = SavedDay(r.events)]
              /\ last' = IF r.error.kind = "none"
                         THEN [NoLast EXCEPT !.op = "http_add"]
                         ELSE [NoLast EXCEPT !.op = "http_add", !.day = d,
                                             !.kind = "infeasible"]
        /\ meta' = TouchMeta(meta)
        /\ UNCHANGED <<now, fstat, thr, call, ctx, clock, turn>>

\* ScheduleManager.add_event_to_day: append and save
AddEventToDay ==
    \E d \in Days, event \in FixedAdds(OneName) :
        /\ StoredCount(store) < MaxStored
        /\ store' = [store EXCEPT ![d] = SavedDay(Append(get_day_schedule(d).events, event))]
        /\ last' = [NoLast EXCEPT !.op = "add_event_to_day"]
        /\ meta' = TouchMeta(meta)
        /\ UNCHANGED <<now, fstat, thr, call, ctx, clock, turn>>

\* clear_day that reports True whatever the day held
clear_day_reports_true ==
    \E d \in Days :
        /\ store' = [x \in Days |-> IF x = d THEN SavedDay(<<>>) ELSE store[x]]
        /\ fstat' = [x \in Days |-> IF x = d THEN "ok" ELSE fstat[x]]
        /\ last' = [NoLast EXCEPT !.op = "clear_day", !.day = d, !.had = TRUE]
        /\ meta' = TouchMeta(meta)
        /\ UNCHANGED <<now, thr, call, ctx, clock, turn>>

\* ScheduleManager.clear_day; last.had is what it returns
ClearDay ==
    \E d \in Days :
        /\ store' = [x \in Days |-> IF x = d THEN SavedDay(<<>>) ELSE store[x]]
        /\ fstat' = [x \in Days |-> IF x = d THEN "ok" ELSE fstat[x]]
        /\ last' = [NoLast EXCEPT !.op = "clear_day", !.day = d,
                                  !.had = (get_day_schedule(d).events # <<>>)]
        /\ meta' = TouchMeta(meta)
        /\ UNCHANGED <<now, thr, call, ctx, clock, turn>>

\* ScheduleManager.clear_week
ClearWeek ==
    /\ store' = [d \in Days |-> EmptyDay]
    /\ meta' = ResetMeta
    /\ last' = [NoLast EXCEPT !.op = "clear_week"]
    /\ UNCHANGED <<now, fstat, thr, call, ctx, clock, turn>>

\* an event of the external calendar: no 'type' key (read as fixed), an id
ExternalEvent(n, s, e) == Ev(n, "fixed", s, e, NoneT, NoneT, NoneT, 1)

ExternalEvents == {ExternalEvent(n, iv[1], iv[2]) :
                     n \in OneName, iv \in {x \in Intervals : x[1] = DayStart}}

RECURSIVE MergeNew(_, _)
\* the loop of merge_external_events: add if name/start not already present
MergeNew(merged_events, day_events) ==
    IF day_events = <<>> THEN merged_events
    ELSE LET evt == Head(day_events) IN
         MergeNew(IF \E k \in DOMAIN merged_events :
                        merged_events[k].name = evt.name /\ merged_events[k].start = evt.start
                  THEN merged_events ELSE Append(merged_events, evt),
                  Tail(day_events))

\* background_sync.merge_external_events, for the weekday `today`
MergeExternalEvents ==
    \E today \in Days, evt \in ExternalEvents :
        /\ StoredCount(store) < MaxStored
        /\ store' = [store EXCEPT ![today] =
                        SavedDay(MergeNew(get_day_schedule(today).events, <<evt>>))]
        /\ last' = [NoLast EXCEPT !.op = "merge_external"]
        /\ meta' = TouchMeta(meta)
        /\ UNCHANGED <<now, fstat, thr, call, ctx, clock, turn>>

Init == InitStore /\ call = NoCall

Next ==
    \/ HandleModifySchedule
    \/ HttpAddEvent
    \/ AddEventToDay
    \/ ClearDay
    \/ ClearWeek
    \/ MergeExternalEvents

Spec == Init /\ [][Next]_vars

\* ------------------------------------------- the ContextManager, call by call
\* what the user says
Utterances == {<<"Y", "e", "s">>, <<"n", "o">>, <<"e", "y", "e", "s">>, <<"a", "t", " ", "B">>}

\* a transcript as the transcriber returns it
Said(u) == Transcript(NoHead, <<u>>)

\* the events a ConflictRecord can name as new_event, and its recommendation
PendingEvents == {FixedAdd(<<"a">>, DayStart, DayStart + 1)}
Recommendations == {ConflictRecord(p, p).recommendation : p \in PendingEvents}

SetClarificationState ==
    /\ \E u \in Utterances : ctx' = set_clarification_state(ctx, Said(u))
    /\ turn' = [turn EXCEPT ![1] = [NoTurn EXCEPT !.pc = "set_clarification_state"]]
    /\ UNCHANGED <<store, meta, now, fstat, thr, last, call, clock>>

SetConflictState ==
    /\ \E p \in PendingEvents, r \in Recommendations \cup {NoRec} :
          ctx' = set_conflict_state(ctx, p, r)
    /\ turn' = [turn EXCEPT ![1] = [NoTurn EXCEPT !.pc = "set_conflict_state"]]
    /\ UNCHANGED <<store, meta, now, fstat, thr, last, call, clock>>

Reset ==
    /\ ctx' = reset
    /\ turn' = [turn EXCEPT ![1] = [NoTurn EXCEPT !.pc = "reset"]]
    /\ UNCHANGED <<store, meta, now, fstat, thr, last, call, clock>>

\* get_context; outcome keeps whether "Context expired, resetting." was logged
GetContext ==
    /\ ctx' = get_context(ctx).ctx
    /\ turn' = [turn EXCEPT ![1] =
                  [NoTurn EXCEPT !.pc = "get_context",
                                 !.context = get_context(ctx).context,
                                 !.outcome = IF is_expired(ctx) /\ ctx.state # "idle"
                                             THEN "expired" ELSE "none"]]
    /\ UNCHANGED <<store, meta, now, fstat, thr, last, call, clock>>

\* time passes
Tick ==
    /\ clock < MaxClock
    /\ clock' = clock + 1
    /\ UNCHANGED <<store, meta, now, fstat, thr, last, call, ctx, turn>>

InitContext == InitStore /\ call = NoCall

NextContext ==
    \/ SetClarificationState
    \/ SetConflictState
    \/ Reset
    \/ GetContext
    \/ Tick

SpecContext == InitContext /\ [][NextContext]_vars

\* --------------------------------------------------- voice turns, one by one
\* len(t) <= 60 of _looks_like_clarification, in characters of the model
ShortReply == 3

clarification_tokens == {<<"a", "t", " ">>, <<"p", "m">>}

confirmation_keywords == {<<"y", "e", "s">>, <<"o", "k", "a", "y">>}

\* _looks_like_clarification (the utterances tried have no outer blanks to strip)
looks_like_clarification(text) ==
    IF text = <<>> THEN FALSE
    ELSE \/ Len(Lower(text)) <= ShortReply
         \/ \E tok \in clarification_tokens : Contains(tok, Lower(text))

\* `any(word in lower_trans for word in confirmation_keywords)`
Confirms(text) == \E word \in confirmation_keywords : Contains(word, Lower(text))

\* _day_from_iso: the weekday of a timestamp; the model's timestamps lie on
\* the first day
day_from_iso(dt) == IF dt = NoneT THEN NoDay ELSE 1

\* the transcript "Add <name> on <day> at <start as %I:%M %p>"
AddAt(name, dt) ==
    Transcript([name |-> name, day |-> day_from_iso(dt), at |-> dt, until |-> NoneT], <<>>)

\* the transcript "Add <name> on <day> <utterance>"
AddOn(name, dt, u) ==
    Transcript([name |-> name, day |-> day_from_iso(dt), at |-> NoneT, until |-> NoneT], <<u>>)

\* "Apply Context Logic" of process_audio_file: the transcript handed on and
\* whether the context is reset
ApplyContext(context, u) ==
    IF context.state = "awaiting_clarification"
    THEN [transcript |-> IF looks_like_clarification(u)
                         THEN Transcript(context.last_transcript.head,
                                         Append(context.last_transcript.tail, u))
                         ELSE Said(u),
          reset |-> TRUE]
    ELSE IF context.state = "awaiting_conflict_resolution"
    THEN LET pending == context.pending_event
             rec == context.recommendation
         IN  [transcript |-> IF Confirms(u)
                             THEN IF rec # NoRec THEN AddAt(pending.name, rec.start)
                                  ELSE AddAt(pending.name, pending.start)
                             ELSE AddOn(pending.name, pending.start, u),
              reset |-> TRUE]
    ELSE [transcript |-> Said(u), reset |-> FALSE]

\* the conflicts handle_modify_schedule can return in schedule_data
HandlerConflicts ==
    LET x == FixedAdd(<<"a">>, DayStart, DayStart + 1)
        y == FixedAdd(<<"A", "b">>, DayStart, DayStart + 2)
    IN  {<<ConflictRecord(x, y)>>, <<ConflictRecord(y, x)>>,
         <<ConflictRecord(x, y), ConflictRecord(y, x)>>}

\* what classify_intent and route_intent make of a transcript: the handler's
\* 'error' and the conflicts of its schedule_data, or an exception
HandlerOutcomes(transcript) ==
    {[kind |-> k, conflicts |-> <<>>] :
        k \in {"classify_failed", "handler_failed", "ok", "error"}}
    \cup (IF Len(transcript.tail) < MaxTail
          THEN {[kind |-> "clarification", conflicts |-> <<>>]} ELSE {})
    \cup {[kind |-> "conflict", conflicts |-> c] : c \in HandlerConflicts}

\* "Step 3.5: Update Context based on result"
UpdateContext(c, transcript, o) ==
    IF o.kind = "clarification" THEN set_clarification_state(c, transcript)
    ELSE IF o.kind = "conflict"
    THEN IF o.conflicts # <<>>
         THEN set_conflict_state(c, o.conflicts[1].new_event, o.conflicts[1].recommendation)
         ELSE c
    ELSE reset

\* process_audio_file, when Whisper gives no transcript or raises
TranscribeFails ==
    /\ ctx' = get_context(ctx).ctx
    /\ turn' = [turn EXCEPT ![1] =
                  [NoTurn EXCEPT !.pc = "done", !.entry = "audio",
                                 !.context = get_context(ctx).context,
                                 !.outcome = "transcribe_failed"]]
    /\ UNCHANGED <<store, meta, now, fstat, thr, last, call, clock>>

\* process_audio_file, from get_context to the update of the context
ProcessAudioFile ==
    \E u \in Utterances :
        LET g == get_context(ctx)
            a == ApplyContext(g.context, u)
            c == IF a.reset THEN reset ELSE g.ctx
        IN  \E o \in HandlerOutcomes(a.transcript) :
               /\ ctx' = IF o.kind \in {"classify_failed", "handler_failed"} THEN c
                         ELSE UpdateContext(c, a.transcript, o)
               /\ turn' = [turn EXCEPT ![1] =
                             [NoTurn EXCEPT !.pc = "done", !.entry = "audio", !.said = u,
                                            !.context = g.context,
                                            !.transcript = a.transcript,
                                            !.classified_in = c.state,
                                            !.outcome = o.kind,
                                            !.conflicts = o.conflicts]]
               /\ UNCHANGED <<store, meta, now, fstat, thr, last, call, clock>>

\* process_transcript_only: classify and route, the context is not consulted
ProcessTranscriptOnly ==
    \E u \in Utterances : \E o \in HandlerOutcomes(Said(u)) :
        /\ turn' = [turn EXCEPT ![1] =
                      [NoTurn EXCEPT !.pc = "done", !.entry = "transcript", !.said = u,
                                     !.transcript = Said(u),
                                     !.classified_in = ctx.state,
                                     !.outcome = o.kind,
                                     !.conflicts = o.conflicts]]
        /\ UNCHANGED <<store, meta, now, fstat, thr, last, call, ctx, clock>>

InitDialog == InitStore /\ call = NoCall

NextDialog ==
    \/ ProcessAudioFile
    \/ TranscribeFails
    \/ ProcessTranscriptOnly
    \/ Tick

SpecDialog == InitDialog /\ [][NextDialog]_vars

\* ------------------------------------------------ voice turns, two at a time
\* the context an earlier turn left
LeftContexts ==
    {reset}
    \cup {set_clarification_state(reset, Said(u)) : u \in Utterances}
    \cup {set_conflict_state(reset, c[1].new_event, c[1].recommendation) : c \in HandlerConflicts}

InitDialogConc ==
    /\ store = [d \in Days |-> EmptyDay]
    /\ meta = [week_start_date |-> 0, last_reset |-> 0, last_modified |-> 0]
    /\ now = 0
    /\ fstat = [d \in Days |-> "ok"]
    /\ thr = [t \in Threads |-> IdleThread]
    /\ last = NoLast
    /\ call = NoCall
    /\ clock = 0
    /\ turn = [t \in Threads |-> NoTurn]
    /\ ctx \in LeftContexts

\* "Step 0: Check Context"
CheckContext(t) ==
    /\ turn[t].pc = "idle"
    /\ ctx' = get_context(ctx).ctx
    /\ turn' = [turn EXCEPT ![t] = [NoTurn EXCEPT !.pc = "checked", !.entry = "audio",
                                                  !.context = get_context(ctx).context]]
    /\ UNCHANGED <<store, meta, now, fstat, thr, last, call, clock>>

\* "Step 1": no transcript
TranscribeFailsAt(t) ==
    /\ turn[t].pc = "checked"
    /\ turn' = [turn EXCEPT ![t].pc = "done", ![t].outcome = "transcribe_failed"]
    /\ UNCHANGED <<store, meta, now, fstat, thr, last, call, ctx, clock>>

\* "Step 1": the transcript, and "Apply Context Logic" with the context read at step 0
Transcribe(t) ==
    /\ turn[t].pc = "checked"
    /\ \E u \in Utterances :
          LET a == ApplyContext(turn[t].context, u) IN
          /\ ctx' = IF a.reset THEN reset ELSE ctx
          /\ turn' = [turn EXCEPT ![t].pc = "applied", ![t].said = u,
                                  ![t].transcript = a.transcript]
    /\ UNCHANGED <<store, meta, now, fstat, thr, last, call, clock>>

\* steps 2 to 3.5: classify, route, update the context
Route(t) ==
    /\ turn[t].pc = "applied"
    /\ \E o \in HandlerOutcomes(turn[t].transcript) :
          /\ ctx' = IF o.kind \in {"classify_failed", "handler_failed"} THEN ctx
                    ELSE UpdateContext(ctx, turn[t].transcript, o)
          /\ turn' = [turn EXCEPT ![t].pc = "done", ![t].classified_in = ctx.state,
                                  ![t].outcome = o.kind, ![t].conflicts = o.conflicts]
    /\ UNCHANGED <<store, meta, now, fstat, thr, last, call, clock>>

NextDialogConc ==
    \E t \in Threads :
        \/ CheckContext(t)
        \/ TranscribeFailsAt(t)
        \/ Transcribe(t)
        \/ Route(t)

SpecDialogConc == InitDialogConc /\ [][NextDialogConc]_vars

\* ------------------------------------------------------- the week rollover
\* check_and_reset_if_new_week that clears the days and keeps week_meta.json
check_and_reset_keeps_metadata ==
    /\ store' = AfterRollover
    /\ meta' = meta
    /\ last' = [NoLast EXCEPT !.op = "check_and_reset", !.rollover = NewWeek]
    /\ UNCHANGED <<now, fstat, thr, call, ctx, clock, turn>>

\* ScheduleManager.check_and_reset_if_new_week; last.rollover is what it returns
CheckAndResetIfNewWeek ==
    /\ store' = AfterRollover
    /\ meta' = IF NewWeek THEN ResetMeta ELSE get_week_metadata
    /\ last' = [NoLast EXCEPT !.op = "check_and_reset", !.rollover = NewWeek]
    /\ UNCHANGED <<now, fstat, thr, call, ctx, clock, turn>>

\* midnight
AdvanceDay ==
    /\ now < MaxDay
    /\ now' = now + 1
    /\ UNCHANGED <<store, meta, fstat, thr, last, call, ctx, clock, turn>>

InitWeek == InitStore /\ call = NoCall

NextWeek ==
    \/ CheckAndResetIfNewWeek
    \/ MergeExternalEvents
    \/ AdvanceDay

SpecWeek == InitWeek /\ [][NextWeek]_vars

\* ------------------------------------------------------ the day files, alone
\* the event lists handed to save_day_schedule: any list, in any order
SaveLists ==
    AddSeqs({FixedAdd(<<"a">>, DayStart, DayStart + 1),
             Placed(FlexAdd(<<"A", "b">>, 1), DayStart + 1)}, MaxSaved)

\* ScheduleManager.save_day_schedule
SaveDaySchedule ==
    \E d \in Days, events \in SaveLists :
        /\ store' = [x \in Days |-> IF x = d THEN SavedDay(events) ELSE store[x]]
        /\ fstat' = [x \in Days |-> IF x = d THEN "ok" ELSE fstat[x]]
        /\ meta' = TouchMeta(meta)
        /\ last' = [NoLast EXCEPT !.op = "save_day_schedule", !.day = d, !.returned = events]
        /\ UNCHANGED <<now, thr, call, ctx, clock, turn>>

\* get_day_schedule that writes an empty schedule.json where it finds none it can read
get_day_schedule_repairing ==
    \E d \in Days :
        /\ last' = [NoLast EXCEPT !.op = "get_day_schedule", !.day = d,
                                  !.got = get_day_schedule(d)]
        /\ store' = [x \in Days |-> IF x = d THEN get_day_schedule(d) ELSE store[x]]
        /\ fstat' = [x \in Days |-> IF x = d THEN "ok" ELSE fstat[x]]
        /\ UNCHANGED <<meta, now, thr, call, ctx, clock, turn>>

\* ScheduleManager.get_day_schedule; last.got is what it returns
GetDaySchedule ==
    \E d \in Days :
        /\ last' = [NoLast EXCEPT !.op = "get_day_schedule", !.day = d,
                                  !.got = get_day_schedule(d)]
        /\ UNCHANGED <<store, meta, now, fstat, thr, call, ctx, clock, turn>>

\* schedule.json of a day is removed, or left cut short by a writer that died
Damage ==
    \E d \in Days, f \in {"missing", "corrupt"} :
        /\ fstat[d] = "ok"
        /\ fstat' = [x \in Days |-> IF x = d THEN f ELSE fstat[x]]
        /\ last' = [NoLast EXCEPT !.op = "damage", !.day = d]
        /\ UNCHANGED <<store, meta, now, thr, call, ctx, clock, turn>>

\* the store a day after week_meta.json was written, no day saved yet
InitDisk ==
    /\ store = [d \in Days |-> EmptyDay]
    /\ meta = [week_start_date |-> 0, last_reset |-> 0, last_modified |-> 0]
    /\ now = 1
    /\ fstat = [d \in Days |-> "missing"]
    /\ thr = [t \in Threads |-> IdleThread]
    /\ last = NoLast
    /\ call = NoCall
    /\ ctx = reset
    /\ clock = 0
    /\ turn = [t \in Threads |-> NoTurn]

NextDisk ==
    \/ SaveDaySchedule
    \/ GetDaySchedule
    \/ ClearDay
    \/ Damage

SpecDisk == InitDisk /\ [][NextDisk]_vars

\* ------------------------------------------------ the metadata file, damaged
\* week_meta.json is removed, or left cut short by a writer that died after
\* open(meta_path, 'w')
DamageMeta ==
    /\ meta.week_start_date # NoneT
    /\ meta' = [week_start_date |-> NoneT, last_reset |-> NoneT, last_modified |-> NoneT]
    /\ last' = [NoLast EXCEPT !.op = "damage_meta"]
    /\ UNCHANGED <<store, now, fstat, thr, call, ctx, clock, turn>>

\* the week rollover and the saves with a metadata file that can be lost
SpecMeta == InitWeek /\ [][NextWeek \/ SaveDaySchedule \/ DamageMeta]_vars



\* --------------------------------------------------------- validate_operations
\* a key that is not in the dictionary, and a key that holds JSON null (None)
Absent == "<absent>"
Null == "<null>"

\* str.lower on the actions of the model
LowerAction(a) ==
    CASE a = "ADD" -> "add"
      [] a = "Delete" -> "delete"
      [] OTHER -> a

\* `not x` for the values of the model: a missing key (get returns None or
\* the empty default), None and the empty string are falsy
Falsy(value) == value \in {Absent, Null, ""}

\* the operations the intent classifier can hand over (parsed JSON): the
\* 'event' is absent, null, or a dictionary with a 'name'
Operations ==
    [action : {"add", "ADD", "delete", "move", Null},
     day : {Absent, "monday"},
     event : {[kind |-> "absent", name |-> Absent], [kind |-> "null", name |-> Absent]}
             \cup [kind : {"dict"}, name : {"", "a", "b"}]]

\* the outcome of one turn of the loop: "raise" (AttributeError leaves the
\* function), "error" (errors.append and continue) or "valid"
ValidateStep(op) ==
    IF op.action = Null THEN "raise"                       \* None.lower()
    ELSE IF LowerAction(IF op.action = Absent THEN "" ELSE op.action)
               \notin {"add", "edit", "delete"}
    THEN "error"
    ELSE IF op.event.kind = "null" THEN "raise"            \* None.get("name")
    ELSE IF Falsy(op.event.name) THEN "error"
    ELSE "valid"

RECURSIVE ValidateLoop(_, _, _)
\* st = [raised, valid, errors]; errors holds the positions reported; a valid
\* operation is appended after `if not op.get("day"): op["day"] = "today"`
ValidateLoop(operations, i, st) ==
    IF i > Len(operations) THEN st
    ELSE LET op == operations[i]
             r == ValidateStep(op)
         IN  IF r = "raise" THEN [st EXCEPT !.raised = TRUE]
             ELSE IF r = "error"
             THEN ValidateLoop(operations, i + 1, [st EXCEPT !.errors = Append(@, i)])
             ELSE ValidateLoop(operations, i + 1,
                    [st EXCEPT !.valid =
                        Append(@, IF Falsy(op.day) THEN [op EXCEPT !.day = "today"] ELSE op)])

validate_operations(operations) ==
    ValidateLoop(operations, 1, [raised |-> FALSE, valid |-> <<>>, errors |-> <<>>])

\* a batch of at most MaxOps operations is handed over
InitValidate ==
    /\ InitStore
    /\ \E n \in 0..MaxOps :
          \E ops \in [1..n -> Operations] :
             call = [pc |-> "input", operations |-> ops,
                     out |-> [raised |-> FALSE, valid |-> <<>>, errors |-> <<>>]]

Validate ==
    /\ call.pc = "input"
    /\ call' = [call EXCEPT !.pc = "done", !.out = validate_operations(call.operations)]
    /\ UNCHANGED <<store, meta, now, fstat, thr, last, ctx, clock, turn>>

SpecValidate == InitValidate /\ [][Validate]_vars

\* --------------------------------------------------- claims on merge calls
Done == call.pc = "done"

\* the list handed to optimize_day_events by the call: the stored events
\* after deletes and edits, then events_to_add
OptimizerInput ==
    MergeInputs(call.existing, call.adds, call.dels, call.edits).events \o call.det.add

\* tentative_schedule when the i-th add of the batch is examined
TentativeAt(i) ==
    LET m == MergeInputs(call.existing, call.adds, call.dels, call.edits)
    IN  detect_and_resolve_conflicts(m.events, SubSeq(m.new, 1, i - 1)).tentative

SameSlot(x, y) == x.name = y.name /\ x.start = y.start /\ x.end = y.end

\* C1: a result without 'error' holds no two events that overlap under the
\* half-open test.
C1_ResultNeverOverlaps ==
    (Done /\ call.res.error.kind = "none") =>
        \A i, j \in DOMAIN call.res.events :
            i < j => ~check_time_overlap(call.res.events[i], call.res.events[j])

\* C4: every Fixed event of the add batch is in events_to_add or is the
\* new_event of a ConflictRecord.
C4_NoAddSilentlyDropped ==
    Done =>
        \A i \in DOMAIN call.adds :
            call.adds[i].type = "fixed" =>
                \/ call.adds[i] \in Range(call.det.add)
                \/ \E c \in Range(call.det.conflicts) : c.new_event = call.adds[i]

\* two Fixed adds i < j of the batch that overlap each other and no stored event
OverlappingPair(i, j) ==
    /\ i < j
    /\ call.adds[i].type = "fixed" /\ call.adds[j].type = "fixed"
    /\ check_time_overlap(call.adds[i], call.adds[j])
    /\ find_conflicts(call.adds[i], call.existing) = <<>>
    /\ find_conflicts(call.adds[j], call.existing) = <<>>

\* the later add of the pair is reported against the earlier one and, unless
\* it is the same event as the earlier one, is not in the returned events
LaterReported(i, j) ==
    /\ \E c \in Range(call.res.conflicts) :
          c.new_event = call.adds[j] /\ c.existing_event = call.adds[i]
    /\ call.adds[j] # call.adds[i] =>
          \A k \in DOMAIN call.res.events : ~SameSlot(call.res.events[k], call.adds[j])

\* C7 as claimed: of two overlapping Fixed adds of a batch, the earlier is
\* accepted and the later is reported and withheld.
C7_LaterOfAnyOverlappingPairReported ==
    Done =>
        \A i, j \in DOMAIN call.adds :
            OverlappingPair(i, j) =>
                call.adds[i] \in Range(call.det.add) /\ LaterReported(i, j)

\* C7 amended: when the earlier add of the pair overlaps nothing of the
\* tentative schedule at its turn, it is accepted, and the later one is
\* reported against it and withheld.
C7_LaterReportedWhenEarlierClear ==
    Done =>
        \A i, j \in DOMAIN call.adds :
            (OverlappingPair(i, j) /\ find_conflicts(call.adds[i], TentativeAt(i)) = <<>>) =>
                call.adds[i] \in Range(call.det.add) /\ LaterReported(i, j)

C7_Witness ==
    /\ Done
    /\ \E i, j \in DOMAIN call.adds :
          /\ OverlappingPair(i, j)
          /\ find_conflicts(call.adds[i], TentativeAt(i)) = <<>>
          /\ call.adds[j] # call.adds[i]
          /\ call.existing # <<>>
          /\ LaterReported(i, j)
          /\ Len(call.res.events) >= 2

\* C8: a Fixed add that overlaps only Flexible items of the tentative set gets
\* no ConflictRecord and is returned at its requested times; each displaced
\* Flexible task is returned once, clear of the Fixed event.
C8_FixedDisplacesFlexible ==
    Done =>
        \A i \in DOMAIN call.adds :
            LET new == call.adds[i]
                cc  == find_conflicts(new, TentativeAt(i))
            IN  (new.type = "fixed" /\ cc # <<>> /\ \A k \in DOMAIN cc : cc[k].type = "flexible") =>
                    /\ \A c \in Range(call.res.conflicts) : c.new_event # new
                    /\ call.res.error.kind = "none"
                    /\ \E k \in DOMAIN call.res.events :
                          SameSlot(call.res.events[k], new) /\ call.res.events[k].type = "fixed"
                    /\ \A q \in DOMAIN cc :
                          /\ Cardinality({k \in DOMAIN call.res.events :
                                            /\ call.res.events[k].name = cc[q].name
                                            /\ call.res.events[k].type = "flexible"}) = 1
                          /\ \A k \in DOMAIN call.res.events :
                                (call.res.events[k].name = cc[q].name
                                 /\ call.res.events[k].type = "flexible")
                                    => ~check_time_overlap(call.res.events[k], new)

\* C10: two non-overlapping Fixed events added to an empty day come back
\* unchanged, and every Fixed event handed to the optimizer that overlaps no
\* other Fixed event comes back as type fixed with its start and end.
C10_FixedReturnedUnchanged ==
    Done =>
        LET inp == OptimizerInput
            Alone(i) == \A j \in DOMAIN inp :
                            (j # i /\ inp[j].type = "fixed") => ~check_time_overlap(inp[i], inp[j])
        IN  \A i \in DOMAIN inp :
                (inp[i].type = "fixed" /\ Alone(i)) =>
                    Cardinality({k \in DOMAIN call.res.events :
                                    /\ SameSlot(call.res.events[k], inp[i])
                                    /\ call.res.events[k].type = "fixed"})
                    >= Cardinality({j \in DOMAIN inp : inp[j] = inp[i]})

\* ---------------------------------------------------- claims on the optimizer
\* the window of a returned Flexible task: earliestStart / latestEnd, the day
\* window where they are None
WindowLo(e) == IF e.es = NoneT THEN DayStart ELSE e.es
WindowHi(e) == IF e.le = NoneT THEN DayEnd ELSE e.le

\* the Fixed events the optimizer keeps as Fixed when it is handed the call's events
KeptFixed == SplitEvents(OptimizerInput).fixed

\* the Flexible task e of the result is well placed
WellPlaced(e) ==
    /\ e.end - e.start = e.dur
    /\ WindowLo(e) <= e.start /\ e.end <= WindowHi(e)
    /\ \A k \in DOMAIN call.res.events :
          call.res.events[k].type = "fixed" => ~check_time_overlap(e, call.res.events[k])
    /\ \A k \in DOMAIN KeptFixed : ~check_time_overlap(e, KeptFixed[k])

\* C11: in a result without 'error' every Flexible task lasts exactly its
\* durationMinutes, lies inside its window and overlaps no Fixed event.
C11_FlexibleTasksWellPlaced ==
    (Done /\ call.res.error.kind = "none") =>
        \A k \in DOMAIN call.res.events :
            call.res.events[k].type = "flexible" => WellPlaced(call.res.events[k])

\* a task with a window narrower than the day is placed next to a Fixed event
C11_Witness ==
    /\ Done /\ call.res.error.kind = "none"
    /\ \E k, j \in DOMAIN call.res.events :
          /\ call.res.events[k].type = "flexible"
          /\ call.res.events[j].type = "fixed"
          /\ WindowHi(call.res.events[k]) - WindowLo(call.res.events[k]) < DayLen
          /\ call.res.events[k].dur < WindowHi(call.res.events[k]) - WindowLo(call.res.events[k])
          /\ WindowLo(call.res.events[k]) <= call.res.events[j].start
          /\ call.res.events[j].end <= WindowHi(call.res.events[k])

\* a task freed of its own window: only the day window bounds it
DayWide(task) == [task EXCEPT !.es = NoneT, !.le = NoneT]

\* the events handed to the optimizer cannot all lie in the day window without
\* overlap: the Fixed ones at their times, the tasks anywhere
CannotFit ==
    LET sp == SplitEvents(OptimizerInput)
    IN  /\ sp.tasks # <<>>
        /\ Solutions(sp.fixed, MapSeq(sp.tasks, DayWide)) = {}

\* C12: when the events of the day cannot all fit in the day window, the
\* result carries 'error' and the events as they were handed in, not a placement.
C12_InfeasibleReturnsError ==
    (Done /\ CannotFit) =>
        /\ call.res.error.kind # "none"
        /\ call.res.events = OptimizerInput

\* two tasks that fit one by one but not together, each with the whole day as window
C12_Witness ==
    /\ Done /\ CannotFit
    /\ call.res.error.kind = "infeasible"
    /\ \E i, j \in DOMAIN OptimizerInput :
          /\ i # j
          /\ OptimizerInput[i].type = "flexible" /\ OptimizerInput[j].type = "flexible"
          /\ OptimizerInput[i].name # OptimizerInput[j].name
          /\ OptimizerInput[i].dur + OptimizerInput[j].dur > DayLen


\* ------------------------------------------- claims on the demotion of Fixed events
\* the Fixed events handed to the optimizer, in ascending start order
FixedByStart ==
    SortByStart(SelectSeq(OptimizerInput, LAMBDA e : e.type # "flexible"))

RECURSIVE KeptUpTo(_, _)
\* the positions among the first i of the sorted list that stay Fixed: each
\* overlaps none of the positions kept before it
KeptUpTo(sorted, i) ==
    IF i = 0 THEN {}
    ELSE LET K == KeptUpTo(sorted, i - 1)
         IN  IF \E j \in K : check_time_overlap(sorted[i], sorted[j])
             THEN K ELSE K \cup {i}

\* some Fixed event handed to the optimizer overlaps one kept before it
SomeDemoted ==
    KeptUpTo(FixedByStart, Len(FixedByStart)) # DOMAIN FixedByStart

\* the result holds the event e as Fixed at its times
StaysFixed(e) ==
    \E k \in DOMAIN call.res.events :
        /\ call.res.events[k].type = "fixed"
        /\ SameSlot(call.res.events[k], e)

\* the result holds a Flexible task of e's name and duration, placed where it
\* overlaps no other event of the result
PlacedAsTask(e) ==
    \E k \in DOMAIN call.res.events :
        /\ call.res.events[k].name = e.name
        /\ call.res.events[k].type = "flexible"
        /\ call.res.events[k].dur = e.end - e.start
        /\ call.res.events[k].end - call.res.events[k].start = e.end - e.start
        /\ \A j \in DOMAIN call.res.events :
              j # k => ~check_time_overlap(call.res.events[k], call.res.events[j])

\* C27: of the Fixed events handed to the optimizer, taken in ascending start
\* order, one stays Fixed at its times when it overlaps none kept before it,
\* and every other comes back as a Flexible task of its name and duration,
\* placed where it overlaps nothing.
C27_OverlappingFixedDemoted ==
    (Done /\ call.res.error.kind = "none" /\ SomeDemoted) =>
        \A i \in DOMAIN FixedByStart :
            IF i \in KeptUpTo(FixedByStart, Len(FixedByStart))
            THEN StaysFixed(FixedByStart[i])
            ELSE PlacedAsTask(FixedByStart[i])


\* --------------------------------------------- claims on the optimizer's output
\* how many events of the list carry the name
CountOf(name, events) == Cardinality({k \in DOMAIN events : events[k].name = name})

\* C28: a result without 'error' holds one entry for each event handed to
\* the optimizer: as many entries of every name as events of that name were
\* handed in, also when two of them share a name.
C28_EveryEventReturnedOnce ==
    (Done /\ call.res.error.kind = "none") =>
        /\ Len(call.res.events) = Len(OptimizerInput)
        /\ \A k \in DOMAIN OptimizerInput :
              CountOf(OptimizerInput[k].name, call.res.events)
                 = CountOf(OptimizerInput[k].name, OptimizerInput)


\* ------------------------------------------------ claims on conflict detection
\* how often the event occurs in the list
Occurrences(e, events) == Cardinality({k \in DOMAIN events : events[k] = e})

\* C29: no ConflictRecord names a Flexible event as its new_event, and every
\* Flexible add of the batch is in events_to_add, whatever it overlaps.
C29_FlexibleAddNeverConflicts ==
    (call.pc # "none") =>
        LET m == MergeInputs(call.existing, call.adds, call.dels, call.edits)
            d == detect_and_resolve_conflicts(m.events, m.new)
        IN  /\ \A r \in DOMAIN d.conflicts : d.conflicts[r].new_event.type # "flexible"
            /\ \A i \in DOMAIN m.new :
                  m.new[i].type = "flexible" =>
                     Occurrences(m.new[i], d.add) >= Occurrences(m.new[i], m.new)
            /\ Done => call.det = d

\* a Flexible add that lies over a stored Fixed event is queued
C29_Witness ==
    /\ Done
    /\ call.det.conflicts = <<>>
    /\ \E i \in DOMAIN call.adds, k \in DOMAIN call.existing :
          /\ call.adds[i].type = "flexible"
          /\ call.existing[k].type = "fixed"
          /\ call.adds[i].start # NoneT
          /\ check_time_overlap(call.adds[i], call.existing[k])
          /\ Occurrences(call.adds[i], call.det.add) > 0


\* the events share more than an end point
ShareTime(x, y) == x.start < y.end /\ y.start < x.end

\* the call adds one Fixed event to a day that holds one Fixed event ending
\* when the add starts
TouchingAdd ==
    /\ call.dels = <<>> /\ call.edits = <<>>
    /\ Len(call.existing) = 1 /\ Len(call.adds) = 1
    /\ call.existing[1].type = "fixed" /\ call.adds[1].type = "fixed"
    /\ call.adds[1].start = call.existing[1].end

\* C30: events that only touch are not in conflict: every ConflictRecord
\* joins two events that share time, and a Fixed add that starts when the
\* stored Fixed event ends gives no record and a day with both at their times.
C30_TouchingIsNoConflict ==
    Done =>
        /\ \A r \in DOMAIN call.det.conflicts :
              ShareTime(call.det.conflicts[r].new_event,
                        call.det.conflicts[r].existing_event)
        /\ TouchingAdd =>
              /\ call.det.conflicts = <<>>
              /\ call.res.conflicts = <<>>
              /\ call.res.error.kind = "none"
              /\ Len(call.res.events) = 2
              /\ StaysFixed(call.existing[1])
              /\ StaysFixed(call.adds[1])

C30_Witness ==
    /\ Done /\ TouchingAdd
    /\ call.existing[1].name # call.adds[1].name
    /\ Len(call.res.events) = 2


\* C31: the recommendation of every ConflictRecord starts at the end of the
\* existing event and lasts exactly as long as the new event.
C31_RecommendationAfterExisting ==
    Done =>
        /\ call.res.conflicts = call.det.conflicts
        /\ \A r \in DOMAIN call.det.conflicts :
              LET c == call.det.conflicts[r]
              IN  /\ c.recommendation.start = c.existing_event.end
                  /\ c.recommendation.end
                        = c.recommendation.start + (c.new_event.end - c.new_event.start)

\* a record whose two events differ in length
C31_Witness ==
    /\ Done
    /\ \E r \in DOMAIN call.res.conflicts :
          LET c == call.res.conflicts[r]
          IN  c.new_event.end - c.new_event.start
                 # c.existing_event.end - c.existing_event.start


\* --------------------------------------------------- claims on impossible windows
\* the tasks handed to the solver that last longer than their window
TooLong ==
    LET tasks == SplitEvents(OptimizerInput).tasks
    IN  {j \in DOMAIN tasks : WindowHi(tasks[j]) - WindowLo(tasks[j]) < tasks[j].dur}

\* C32: when a Flexible task lasts longer than its window, the result
\* carries an 'error' that names such a task (the task, when there is one),
\* and the events as they were handed in: no placement.
C32_ImpossibleWindowNamed ==
    (Done /\ TooLong # {}) =>
        LET tasks == SplitEvents(OptimizerInput).tasks
        IN  /\ call.res.error.kind = "window"
            /\ \E j \in TooLong : call.res.error.task = tasks[j].name
            /\ call.res.events = OptimizerInput

\* one task too long for its window, next to a Fixed event outside that window
C32_Witness ==
    /\ Done /\ TooLong # {}
    /\ call.res.error.kind = "window"
    /\ \E i, j \in DOMAIN OptimizerInput :
          /\ OptimizerInput[i].type = "fixed"
          /\ OptimizerInput[j].type = "flexible"
          /\ OptimizerInput[j].dur > WindowHi(OptimizerInput[j]) - WindowLo(OptimizerInput[j])
          /\ ~check_time_overlap(OptimizerInput[i], OptimizerInput[j])


\* ------------------------------------------------- claims on validate_operations
\* the operation names a known action and an event
WellFormed(op) ==
    /\ op.action \in {"add", "ADD", "edit", "delete", "Delete"}
    /\ op.event.kind = "dict"
    /\ op.event.name \notin {Absent, Null, ""}

\* C33: validate_operations returns, in their order, the operations that
\* name a known action and an event, each with day "today" when it had none,
\* and reports each of the others, whatever is wrong with them.
C33_BadOperationRejectedRestKept ==
    call.pc = "done" =>
        /\ ~call.out.raised
        /\ call.out.valid
              = MapSeq(SelectSeq(call.operations, WellFormed),
                       LAMBDA op : IF op.day = Absent THEN [op EXCEPT !.day = "today"] ELSE op)
        /\ Len(call.out.errors) + Len(call.out.valid) = Len(call.operations)


\* ------------------------------------------------- claims on reported infeasibility
\* the adds of the call that no ConflictRecord turns down
AcceptedAdds ==
    LET m == MergeInputs(call.existing, call.adds, call.dels, call.edits)
    IN  SelectSeq(m.new, LAMBDA e :
            \A r \in DOMAIN call.det.conflicts : call.det.conflicts[r].new_event # e)

\* the surviving stored events and the accepted adds, each once
Wanted ==
    MergeInputs(call.existing, call.adds, call.dels, call.edits).events \o AcceptedAdds

\* the Fixed events of the list at their times and its tasks inside their
\* windows can lie in the day without overlap
Fits(events) ==
    Solutions(SelectSeq(events, LAMBDA e : e.type # "flexible"),
              MapSeq(SelectSeq(events, LAMBDA e : e.type = "flexible"), TaskOf)) # {}

\* C34: when the surviving stored events and the accepted adds can be placed
\* without overlap, the call returns a schedule without 'error'.
C34_ErrorOnlyWhenNothingFits ==
    (Done /\ Fits(Wanted)) => call.res.error.kind = "none"


\* ------------------------------------------------- claims on untouched events
\* no delete or edit of the call names the stored event
Unnamed(e) ==
    /\ \A k \in DOMAIN call.dels : ~NameMatches(call.dels[k], e.name)
    /\ \A k \in DOMAIN call.edits : ~NameMatches(call.edits[k].name, e.name)

\* every stored Fixed event that the call does not name is in the result
\* as a Fixed event at its start and end
UnnamedFixedStay ==
    \A k \in DOMAIN call.existing :
        (call.existing[k].type = "fixed" /\ Unnamed(call.existing[k]))
            => StaysFixed(call.existing[k])

\* C36: a stored Fixed event that no delete and no edit of the call names is
\* in a result without 'error' as a Fixed event at its start and end, also
\* when an edit moves another event onto its interval (checked for stored
\* events of different names that do not overlap, with nothing added).
C36_UnnamedFixedStays ==
    (/\ Done /\ call.res.error.kind = "none"
     /\ call.adds = <<>> /\ call.edits # <<>>
     /\ \A i, j \in DOMAIN call.existing :
           i # j => /\ call.existing[i].name # call.existing[j].name
                    /\ ~check_time_overlap(call.existing[i], call.existing[j]))
    => UnnamedFixedStay

\* ------------------------------------------------- claims on pass-through
\* C13: with nothing deleted and nothing added, the event of the result that
\* carries the name of the k-th stored event (as edited, when the name is the
\* only one of its kind) has the _calendar_id the k-th stored event had.
C13_CalendarIdPreserved ==
    LET m == MergeInputs(call.existing, call.adds, call.dels, call.edits)
    IN  (Done /\ call.res.error.kind = "none" /\ call.dels = <<>> /\ m.new = <<>>) =>
            \A k \in DOMAIN m.events :
                (\A j \in DOMAIN m.events : j # k => m.events[j].name # m.events[k].name) =>
                    \A r \in DOMAIN call.res.events :
                        call.res.events[r].name = m.events[k].name =>
                            call.res.events[r].cid = call.existing[k].cid


\* ------------------------------------------- claims on the delete and edit steps
\* the delete names of the call one of which the name contains, letter case aside
Deleted(name) ==
    \E k \in DOMAIN call.dels : Contains(Lower(call.dels[k]), Lower(name))

\* C25: the delete step removes every stored event whose name contains a
\* delete name, letter case aside, and keeps the others as they are and in
\* their order; no event of the result carries a deleted name.
C25_DeleteRemovesEveryMatch ==
    (call.pc # "none" /\ call.edits = <<>>) =>
        /\ MergeInputs(call.existing, call.adds, call.dels, call.edits).events
              = SelectSeq(call.existing, LAMBDA e : ~Deleted(e.name))
        /\ (Done /\ call.adds = <<>>) =>
              \A r \in DOMAIN call.res.events : ~Deleted(call.res.events[r].name)

C25_Witness ==
    /\ Done
    /\ call.dels # <<>>
    /\ Len(call.existing) = 3
    /\ Len(call.res.events) = 1
    /\ call.res.error.kind = "none"

\* the stored events an edit name matches
Hits(edit_name) ==
    {k \in DOMAIN call.existing : Contains(Lower(edit_name), Lower(call.existing[k].name))}

SameFields(e, ed) ==
    /\ e.name = ed.name /\ e.type = ed.type /\ e.start = ed.start /\ e.end = ed.end
    /\ e.dur = ed.dur /\ e.es = ed.es /\ e.le = ed.le

\* C26: an edit lands on the first stored event whose name contains the edit
\* name, which takes the edit's fields, every other stored event staying as
\* it is; an edit that matches nothing joins the adds and is tested for
\* conflicts with them.
C26_EditFirstMatchOrAdd ==
    (call.pc # "none" /\ call.dels = <<>> /\ Len(call.edits) = 1) =>
        LET ed == call.edits[1]
            m == MergeInputs(call.existing, call.adds, call.dels, call.edits)
        IN  IF Hits(ed.name) # {}
            THEN /\ Len(m.events) = Len(call.existing)
                 /\ \A k \in DOMAIN m.events :
                       IF k \in Hits(ed.name) /\ \A j \in Hits(ed.name) : k <= j
                       THEN SameFields(m.events[k], ed)
                       ELSE m.events[k] = call.existing[k]
                 /\ m.new = call.adds
            ELSE /\ m.events = call.existing
                 /\ m.new = Append(call.adds, ed)
                 /\ Done => call.det = detect_and_resolve_conflicts(call.existing,
                                                                      Append(call.adds, ed))

C26_Witness ==
    /\ Done
    /\ Len(call.edits) = 1
    /\ \E j, k \in Hits(call.edits[1].name) :
          /\ j < k
          /\ call.existing[j].start # call.edits[1].start

\* ------------------------------------------------------ claims on the store
\* C2: no two events persisted in the same day's DaySchedule overlap.
C2_StoredEventsNeverOverlap ==
    \A d \in Days :
        \A i, j \in DOMAIN store[d].events :
            i < j => ~check_time_overlap(store[d].events[i], store[d].events[j])

\* C3: an operation that reports the optimizer's 'error' for a day leaves the
\* events persisted for that day as they were.
C3_InfeasibleLeavesDayUntouched ==
    [][last'.kind = "infeasible" => store'[last'.day].events = store[last'.day].events]_vars

\* the add e is among evs: a Fixed add at its times, a Flexible one by name
Applied(e, evs) ==
    \E k \in DOMAIN evs :
        /\ evs[k].name = e.name /\ evs[k].type = e.type
        /\ e.type = "fixed" => SameSlot(evs[k], e)

\* C9: when a batch is answered with conflicts, every add no ConflictRecord
\* names is in the returned events and in the persisted day.
C9_NonConflictingAddsApplied ==
    last.kind = "conflict" =>
        \A e \in Range(last.free) :
            Applied(e, last.returned) /\ Applied(e, store[last.day].events)


\* C35: a voice request answered 'Conflict detected' or 'Scheduling
\* impossible' leaves the persisted schedule of every weekday as it was.
C35_RefusedRequestChangesNoDay ==
    [][(last'.op = "modify" /\ last'.kind \in {"conflict", "infeasible"})
          => \A d \in Days : store'[d].events = store[d].events]_vars

\* ------------------------------------------------- the store, concurrently
\* Flask serves each request on its own thread and no lock guards the store.
\* A thread handles one voice request: one Fixed add for one day.
Seed == FixedAdd(<<"a">>, DayStart, DayStart + 1)

InitConc ==
    /\ store \in [Days -> {EmptyDay, [events |-> <<Seed>>, last_updated |-> 0]}]
    /\ meta = [week_start_date |-> 0, last_reset |-> 0, last_modified |-> 0]
    /\ now = 0
    /\ fstat = [d \in Days |-> "ok"]
    /\ thr = [t \in Threads |-> IdleThread]
    /\ last = NoLast
    /\ ctx = reset
    /\ clock = 0
    /\ turn = [t \in Threads |-> NoTurn]
    /\ call = NoCall

\* handle_modify_schedule up to manager.get_day_schedule(day_name)
Get(t) ==
    /\ thr[t].pc = "idle"
    /\ \E d \in Days, e \in FixedAdds(OneName) :
          thr' = [thr EXCEPT ![t] = [IdleThread EXCEPT !.pc = "got", !.day = d,
                                                       !.adds = <<e>>,
                                                       !.read = get_day_schedule(d).events]]
    /\ UNCHANGED <<store, meta, now, fstat, last, call, ctx, clock, turn>>

\* merge_and_optimize_events on what was read; an error or a conflict ends
\* the request without a save
Merge(t) ==
    /\ thr[t].pc = "got"
    /\ \E r \in merge_and_optimize_events(thr[t].read, thr[t].adds, <<>>, <<>>) :
          thr' = [thr EXCEPT ![t] =
                    IF r.error.kind # "none"
                    THEN [@ EXCEPT !.pc = "done", !.kind = "infeasible"]
                    ELSE IF r.conflicts # <<>>
                    THEN [@ EXCEPT !.pc = "done", !.kind = "conflict"]
                    ELSE [@ EXCEPT !.pc = "merged", !.out = r.events]]
    /\ UNCHANGED <<store, meta, now, fstat, last, call, ctx, clock, turn>>

\* save_day_schedule, open(schedule_path, 'w'): the file is truncated
SaveOpen(t) ==
    /\ thr[t].pc = "merged"
    /\ fstat' = [fstat EXCEPT ![thr[t].day] = "trunc"]
    /\ thr' = [thr EXCEPT ![t].pc = "open"]
    /\ UNCHANGED <<store, meta, now, last, call, ctx, clock, turn>>

\* what the file holds once the buffered json.dump is written at offset 0 and
\* the file is closed: the new content when the file is still empty or the
\* bytes written meanwhile are covered, else the tail of the other content
\* remains and the file does not parse
Written(d, out) ==
    IF fstat[d] = "trunc" THEN {"ok"}
    ELSE IF fstat[d] = "ok" /\ Len(out) > Len(store[d].events) THEN {"ok"}
    ELSE IF fstat[d] = "ok" /\ Len(out) < Len(store[d].events) THEN {"corrupt"}
    ELSE {"ok", "corrupt"}

\* save_day_schedule, json.dump and close, then _update_week_metadata
SaveWrite(t) ==
    /\ thr[t].pc = "open"
    /\ \E w \in Written(thr[t].day, thr[t].out) :
          /\ fstat' = [fstat EXCEPT ![thr[t].day] = w]
          /\ store' = IF w = "ok" THEN [store EXCEPT ![thr[t].day] = SavedDay(thr[t].out)]
                      ELSE store
    /\ meta' = TouchMeta(meta)
    /\ thr' = [thr EXCEPT ![t].pc = "done", ![t].kind = "saved"]
    /\ UNCHANGED <<now, last, call, ctx, clock, turn>>

NextConc ==
    \E t \in Threads :
        \/ Get(t)
        \/ Merge(t)
        \/ SaveOpen(t)
        \/ SaveWrite(t)

SpecConc == InitConc /\ [][NextConc]_vars

\* ------------------------------------------- claims on concurrent requests
\* C5: after two requests on the same day have both saved, the persisted day
\* holds the adds of both, when the adds overlap neither each other nor the
\* event the day held.
C5_NoLostUpdate ==
    \A t, u \in Threads :
        (/\ t # u
         /\ thr[t].pc = "done" /\ thr[t].kind = "saved"
         /\ thr[u].pc = "done" /\ thr[u].kind = "saved"
         /\ thr[t].day = thr[u].day
         /\ ~check_time_overlap(thr[t].adds[1], thr[u].adds[1])
         /\ ~check_time_overlap(thr[t].adds[1], Seed)
         /\ ~check_time_overlap(thr[u].adds[1], Seed))
        => /\ fstat[thr[t].day] = "ok"
           /\ Applied(thr[t].adds[1], store[thr[t].day].events)
           /\ Applied(thr[u].adds[1], store[thr[t].day].events)

\* C6: a get_day_schedule returns the content last saved for the day or the
\* content a save in progress is writing.
C6_ReadsCompleteContent ==
    [][\A t \in Threads :
          (thr[t].pc = "idle" /\ thr'[t].pc = "got") =>
              \/ thr'[t].read = store[thr'[t].day].events
              \/ \E u \in Threads :
                    /\ thr[u].pc = "open" /\ thr[u].day = thr'[t].day
                    /\ thr'[t].read = thr[u].out]_vars

\* -------------------------------------------- claims on the ContextManager
\* C17: a get_context later than timeout_seconds after a non-Idle state was
\* set returns Idle and clears the payload; one at or before that time returns
\* the pending state with its payload and leaves the context as it is.
C17_ExpiresAfterTimeout ==
    [][(GetContext /\ ctx.state # "idle") =>
          IF clock > ctx.last_interaction_time + timeout_seconds
          THEN /\ turn'[1].context = Context("idle", NoTranscript, NoEvent, NoRec)
               /\ ctx' = reset
          ELSE /\ turn'[1].context = Context(ctx.state, ctx.last_transcript,
                                             ctx.pending_event, ctx.recommendation)
               /\ ctx' = ctx]_vars

C17_Witness ==
    /\ turn[1].pc = "get_context"
    /\ turn[1].outcome = "expired"
    /\ turn[1].context.state = "idle"
    /\ ctx = reset


\* C39: get_context on a context that has not expired leaves state, payload
\* and last_interaction_time as they are, and no get_context moves
\* last_interaction_time forward: reads do not extend the time to live.
C39_ReadDoesNotExtendLife ==
    /\ [][(/\ GetContext
           /\ ctx.last_interaction_time # NoneT
           /\ clock <= ctx.last_interaction_time + timeout_seconds) => ctx' = ctx]_vars
    /\ [][GetContext =>
            \/ ctx'.last_interaction_time = ctx.last_interaction_time
            \/ ctx' = reset]_vars

\* a pending state read at the last tick of its life, as it was set
C39_Witness ==
    /\ turn[1].pc = "get_context"
    /\ turn[1].context.state # "idle"
    /\ ctx.state = turn[1].context.state
    /\ clock = ctx.last_interaction_time + timeout_seconds

\* C18: the context holds the payload of its state only: none in Idle, the
\* transcript alone in AwaitingClarification, the pending event and the
\* recommendation alone in AwaitingConflictResolution.
C18_OnlyPendingStatePayload ==
    /\ ctx.state = "idle" =>
          /\ ctx.last_transcript = NoTranscript
          /\ ctx.pending_event = NoEvent
          /\ ctx.recommendation = NoRec
    /\ ctx.state = "awaiting_clarification" =>
          /\ ctx.pending_event = NoEvent
          /\ ctx.recommendation = NoRec
    /\ ctx.state = "awaiting_conflict_resolution" =>
          ctx.last_transcript = NoTranscript

\* ------------------------------------------------- claims on the dialogue
\* a turn that ran to its end: the handler returned
Completed == turn[1].pc = "done" /\ turn[1].outcome \in {"ok", "error", "clarification", "conflict"}

\* C14: after every completed turn, on either entry point, the context is
\* AwaitingClarification with the turn's transcript when the handler asked
\* for more information, AwaitingConflictResolution with the first
\* ConflictRecord's new event and recommendation when it reported a
\* conflict, and Idle otherwise.
C14_StateReflectsOutcome ==
    [][(turn' # turn /\ Completed') =>
          IF turn'[1].outcome = "clarification"
          THEN ctx'.state = "awaiting_clarification"
               /\ ctx'.last_transcript = turn'[1].transcript
          ELSE IF turn'[1].outcome = "conflict"
          THEN ctx'.state = "awaiting_conflict_resolution"
               /\ ctx'.pending_event = turn'[1].conflicts[1].new_event
               /\ ctx'.recommendation = turn'[1].conflicts[1].recommendation
          ELSE ctx'.state = "idle"]_vars

\* C15: a turn that starts in a pending state classifies its command with the
\* context already reset to Idle, and leaves a pending state only if its own
\* outcome set one.
C15_PendingConsumedByNextTurn ==
    [][(turn' # turn /\ turn'[1].pc = "done" /\ ctx.state # "idle") =>
          /\ turn'[1].classified_in \in {"none", "idle"}
          /\ ctx'.state # "idle" => turn'[1].outcome \in {"clarification", "conflict"}]_vars

\* C16: from AwaitingConflictResolution with pending event X and
\* recommendation R, an utterance with an affirmative token becomes the
\* command adding X from R's start to R's end (X's own when there is no
\* recommendation), classified with the context Idle.
C16_ConfirmationAddsAtRecommendation ==
    [][(turn' # turn /\ turn'[1].pc = "done" /\ turn'[1].entry = "audio"
        /\ turn'[1].context.state = "awaiting_conflict_resolution"
        /\ Confirms(turn'[1].said)) =>
          LET X == turn'[1].context.pending_event
              R == turn'[1].context.recommendation
              head == turn'[1].transcript.head
          IN  /\ head.name = X.name
              /\ head.at = IF R # NoRec THEN R.start ELSE X.start
              /\ head.until = IF R # NoRec THEN R.end ELSE X.end
              /\ turn'[1].transcript.tail = <<>>
              /\ turn'[1].classified_in = "idle"]_vars

\* thread t built its command from the pending payload it read at step 0
Consumed(t) ==
    /\ turn[t].pc \in {"applied", "done"}
    /\ turn[t].context.state # "idle"
    /\ turn[t].transcript # NoTranscript

\* C19: of two requests handled at once, at most one reads a pending state
\* at the start of its turn and builds its command with it.
C19_PendingConsumedOnce ==
    ~(Consumed(1) /\ Consumed(2) /\ turn[1].context = turn[2].context)

\* ---------------------------------------------- claims on the week rollover
\* C20: check_and_reset_if_new_week, when week_start_date is not the Monday
\* of the current week, empties every day, sets week_start_date to that
\* Monday and returns true; otherwise (as for every further call of the same
\* week) it returns false and leaves days and metadata as they are. No other
\* operation moves week_start_date, so a call after a call of the same week
\* is of the second kind.
C20_RolloverOncePerWeek ==
    /\ [][~CheckAndResetIfNewWeek => meta'.week_start_date = meta.week_start_date]_vars
    /\ [][CheckAndResetIfNewWeek =>
            IF meta.week_start_date # now - (now % Len(DaysSeq))
            THEN /\ \A d \in Days : store'[d].events = <<>>
                 /\ meta'.week_start_date = now - (now % Len(DaysSeq))
                 /\ last'.rollover
            ELSE /\ store' = store
                 /\ meta' = meta
                 /\ ~last'.rollover]_vars

C20_Witness ==
    /\ last.op = "check_and_reset"
    /\ last.rollover
    /\ now >= Len(DaysSeq)
    /\ meta.week_start_date = now - (now % Len(DaysSeq))
    /\ meta.last_modified = now
    /\ \A d \in Days : store[d].events = <<>>



\* C38: save_day_schedule changes the record of the saved day and the
\* metadata's last_modified only: the other days, week_start_date and
\* last_reset are as before.
C38_SaveTouchesOneDay ==
    [][SaveDaySchedule =>
          /\ \A d \in Days : d # last'.day => (store'[d] = store[d] /\ fstat'[d] = fstat[d])
          /\ meta'.week_start_date = meta.week_start_date
          /\ meta'.last_reset = meta.last_reset]_vars

\* C37: when week_meta.json comes to hold a week_start_date it did not hold
\* before, no day keeps events that were written before that date: every
\* day of the earlier week is empty right after the change, also when the
\* file is written anew because it was missing or did not parse.
C37_NewWeekStartsEmpty ==
    [][(meta'.week_start_date # meta.week_start_date /\ meta'.week_start_date # NoneT)
          => \A d \in Days :
                \/ store'[d].events = <<>>
                \/ store'[d].last_updated >= meta'.week_start_date]_vars

\* --------------------------------------------------- claims on the day files
\* C21: get_day_schedule of a day right after save_day_schedule of that day
\* returns the saved event list, stamped with the time of the save.
C21_SaveThenGetRoundTrip ==
    [][(last.op = "save_day_schedule" /\ GetDaySchedule /\ last'.day = last.day) =>
          /\ last'.got.events = last.returned
          /\ last'.got.last_updated = now]_vars

C21_Witness ==
    /\ last.op = "get_day_schedule"
    /\ Len(last.got.events) = MaxSaved
    /\ last.got.last_updated = now

\* C22: get_day_schedule changes no day file and no field of the metadata, and
\* two calls in a row for one day return the same.
C22_GetIsReadOnly ==
    [][GetDaySchedule =>
          /\ store' = store /\ fstat' = fstat /\ meta' = meta
          /\ (last.op = "get_day_schedule" /\ last.day = last'.day) => last'.got = last.got]_vars

C22_Witness ==
    /\ last.op = "get_day_schedule"
    /\ last.got.events # <<>>
    /\ meta.last_modified = now

\* C23: get_day_schedule of a day whose file is missing or does not parse
\* returns the empty DaySchedule and leaves the file as it is.
C23_UnreadableDayReadsEmpty ==
    [][(GetDaySchedule /\ fstat[last'.day] # "ok") =>
          /\ last'.got = EmptyDay
          /\ store' = store /\ fstat' = fstat]_vars

C23_Witness ==
    /\ last.op = "get_day_schedule"
    /\ fstat[last.day] = "corrupt"
    /\ store[last.day].events # <<>>
    /\ last.got = EmptyDay

\* C24: clear_day returns true exactly when the day read non-empty before the
\* call; afterwards the day reads empty and the other days are as they were.
C24_ClearDayReportsHadEvents ==
    [][ClearDay =>
          LET d == last'.day IN
          /\ last'.had = (get_day_schedule(d).events # <<>>)
          /\ fstat'[d] = "ok" /\ store'[d].events = <<>>
          /\ \A x \in Days \ {d} : store'[x] = store[x] /\ fstat'[x] = fstat[x]]_vars

C24_Witness ==
    /\ last.op = "clear_day"
    /\ last.had
    /\ store[last.day].events = <<>>
    /\ \E x \in Days \ {last.day} : store[x].events # <<>>

====
